---- MODULE Spec2Model ----
(***************************************************************************)
(* Model of examples/hello-world-uv/src/server.py: the two handlers        *)
(* registered on the MCP server (handle_list_tools, handle_call_tool) and  *)
(* main, which runs the server inside the scoped stdio transport.          *)
(***************************************************************************)
EXTENDS Integers, Sequences, FiniteSets, TLC

VARIABLES
    pc,         \* position of main: start, entered, awaiting, run_returned, run_raised, done, failed
    transport,  \* the stdio_server() context: unacquired, held, released
    loop,       \* server.run: idle, running, ended
    stdin,      \* the peer's end of the transport: open, eof
    init,       \* the InitializationOptions server.run was called with
    runCalls,   \* how many times main has called server.run
    served,     \* how many requests the run loop has dispatched
    prev,       \* the request dispatched before the last one, with its answer
    last        \* the last request dispatched, with its answer

vars == <<pc, transport, loop, stdin, init, runCalls, served, prev, last>>

----------------------------------------------------------------------------
(* Bounds *)

\* requests dispatched in one run of the server
MaxRequests == 3
\* integer values a caller may put in a mapping are 0..MaxInt
MaxInt == 1

----------------------------------------------------------------------------
(* Python values: str, None and int, each with its type tag *)

PyStr(s) == [t |-> "str", s |-> s, n |-> 0]
PyNone == [t |-> "NoneType", s |-> "", n |-> 0]
PyInt(n) == [t |-> "int", s |-> "", n |-> n]

Digit(d) == <<"0", "1", "2", "3", "4", "5", "6", "7", "8", "9">>[d + 1]

RECURSIVE IntToStr(_)
IntToStr(n) == IF n < 10 THEN Digit(n) ELSE IntToStr(n \div 10) \o Digit(n % 10)

\* what an f-string replacement field {v} renders: format(v, "") = str(v)
format(v) ==
    CASE v.t = "str" -> v.s
      [] v.t = "NoneType" -> "None"
      [] v.t = "int" -> IntToStr(v.n)

\* the strings a caller greets with, the keys of a mapping, the tool names called
PersonNames == {"", "Ada"}
Keys == {"name", "title"}
ToolNames == {"say_hello", "bogus_tool", "say_goodbye"}

Values == {PyStr(s) : s \in PersonNames} \cup {PyNone} \cup {PyInt(n) : n \in 0..MaxInt}

\* arguments: dict | None
NoneArgs == [t |-> "NoneType", d |-> <<>>]
Dict(f) == [t |-> "dict", d |-> f]
Dicts == {Dict(f) : f \in UNION {[D -> Values] : D \in SUBSET Keys}}
Arguments == {NoneArgs} \cup Dicts

\* bool(arguments): None and the empty dict are falsy
Truthy(arguments) == arguments.t = "dict" /\ DOMAIN arguments.d # {}

\* dict.get(key, default): reads, never writes
dict_get(arguments, key, default) ==
    IF key \in DOMAIN arguments.d THEN arguments.d[key] ELSE default

\* dict.pop(key, default): the value, and the mapping without the key
dict_pop(arguments, key, default) ==
    [value |-> dict_get(arguments, key, default),
     dict  |-> Dict([k \in DOMAIN arguments.d \ {key} |-> arguments.d[k]])]

\* exception classes that derive from Exception (SystemExit derives from BaseException only)
IsException(type) == type \in {"ValueError", "AttributeError"}

----------------------------------------------------------------------------
(* The handlers *)

Tool(name, description, inputSchema) ==
    [name |-> name, description |-> description, inputSchema |-> inputSchema]

TextContent(text) == [type |-> "text", text |-> text]

\* what a handler call comes to: a returned value or a raised exception,
\* and the caller's mapping as the call leaves it
Return(value, arguments) ==
    [raised |-> FALSE, value |-> value, type |-> "", msg |-> "", arguments |-> arguments]
Raise(type, msg, arguments) ==
    [raised |-> TRUE, value |-> <<>>, type |-> type, msg |-> msg, arguments |-> arguments]

say_hello_schema ==
    [type |-> "object",
     properties |-> [name |-> [type |-> "string", description |-> "Name to greet"]],
     required |-> <<"name">>]

handle_list_tools_NotRequired ==
    << Tool("say_hello", "Say hello to someone",
            [say_hello_schema EXCEPT !.required = <<>>]) >>

handle_list_tools_Extra ==
    << Tool("say_hello", "Say hello to someone", say_hello_schema),
       Tool("say_goodbye", "Say goodbye to someone", say_hello_schema) >>

handle_list_tools ==
    << Tool("say_hello", "Say hello to someone", say_hello_schema) >>

\* person_name = arguments.get("name") or "World"
handle_call_tool_Or(name, arguments) ==
    IF name = "say_hello"
    THEN LET got == IF Truthy(arguments) THEN dict_get(arguments, "name", PyNone) ELSE PyNone
             falsy == got.t = "NoneType" \/ (got.t = "str" /\ got.s = "")
                         \/ (got.t = "int" /\ got.n = 0)
             person_name == IF falsy THEN PyStr("World") ELSE got
         IN  Return(<<TextContent("Hello, " \o format(person_name) \o "!")>>, arguments)
    ELSE Raise("ValueError", "Unknown tool: " \o name, arguments)

\* person_name = arguments.get("name", "World"), without the guard on arguments
handle_call_tool_NoGuard(name, arguments) ==
    IF name = "say_hello"
    THEN IF arguments.t = "NoneType"
         THEN Raise("AttributeError", "'NoneType' object has no attribute 'get'", arguments)
         ELSE LET person_name == dict_get(arguments, "name", PyStr("World"))
              IN  Return(<<TextContent("Hello, " \o format(person_name) \o "!")>>, arguments)
    ELSE Raise("ValueError", "Unknown tool: " \o name, arguments)

\* the greeting without the test of the tool name
handle_call_tool_AnyName(name, arguments) ==
    LET person_name == IF Truthy(arguments)
                       THEN dict_get(arguments, "name", PyStr("World"))
                       ELSE PyStr("World")
    IN  Return(<<TextContent("Hello, " \o format(person_name) \o "!")>>, arguments)

\* person_name = arguments.pop("name", "World") if arguments else "World"
handle_call_tool_Pop(name, arguments) ==
    IF name = "say_hello"
    THEN LET popped == dict_pop(arguments, "name", PyStr("World"))
             person_name == IF Truthy(arguments) THEN popped.value ELSE PyStr("World")
             after == IF Truthy(arguments) THEN popped.dict ELSE arguments
         IN  Return(<<TextContent("Hello, " \o format(person_name) \o "!")>>, after)
    ELSE Raise("ValueError", "Unknown tool: " \o name, arguments)

\* sys.exit(f"Unknown tool: {name}") in place of raise ValueError
handle_call_tool_Exit(name, arguments) ==
    IF name = "say_hello"
    THEN LET person_name == IF Truthy(arguments)
                            THEN dict_get(arguments, "name", PyStr("World"))
                            ELSE PyStr("World")
         IN  Return(<<TextContent("Hello, " \o format(person_name) \o "!")>>, arguments)
    ELSE Raise("SystemExit", "Unknown tool: " \o name, arguments)

handle_call_tool(name, arguments) ==
    IF name = "say_hello"
    THEN LET person_name == IF Truthy(arguments)
                            THEN dict_get(arguments, "name", PyStr("World"))
                            ELSE PyStr("World")
         IN  Return(<<TextContent("Hello, " \o format(person_name) \o "!")>>, arguments)
    ELSE Raise("ValueError", "Unknown tool: " \o name, arguments)

----------------------------------------------------------------------------
(* main and the run loop it hands control to *)

\* InitializationOptions(server_name=..., server_version=..., capabilities=
\*   server.get_capabilities(notification_options=NotificationOptions(),
\*                           experimental_capabilities={}))
InitializationOptions ==
    [server_name |-> "hello-world-uv",
     server_version |-> "1.0.0",
     capabilities |-> [notification_options |-> "NotificationOptions()",
                       experimental_capabilities |-> <<>>]]

NoOptions ==
    [server_name |-> "",
     server_version |-> "",
     capabilities |-> [notification_options |-> "", experimental_capabilities |-> <<>>]]

NoOutcome == Return(<<>>, NoneArgs)

NoEvent ==
    [kind |-> "none", name |-> "", arguments |-> NoneArgs,
     outcome |-> NoOutcome, response |-> "none"]

Init ==
    /\ pc = "start"
    /\ transport = "unacquired"
    /\ loop = "idle"
    /\ stdin = "open"
    /\ init = NoOptions
    /\ runCalls = 0
    /\ served = 0
    /\ prev = NoEvent
    /\ last = NoEvent

\* async with mcp.server.stdio.stdio_server() as (read_stream, write_stream): entry
MainEnterStdio ==
    /\ pc = "start"
    /\ transport' = "held"
    /\ pc' = "entered"
    /\ UNCHANGED <<loop, stdin, init, runCalls, served, prev, last>>

\* await server.run(read_stream, write_stream, InitializationOptions(...)): the call
MainCallRun ==
    /\ pc = "entered"
    /\ init' = InitializationOptions
    /\ runCalls' = runCalls + 1
    /\ loop' = "running"
    /\ pc' = "awaiting"
    /\ UNCHANGED <<transport, stdin, served, prev, last>>

\* the with block is left without the await: server.run is started, not awaited
MainExitStdio_NotAwaited ==
    /\ pc \in {"awaiting", "run_returned", "run_raised"}
    /\ transport' = "released"
    /\ pc' = IF pc = "run_raised" THEN "failed" ELSE "done"
    /\ UNCHANGED <<loop, stdin, init, runCalls, served, prev, last>>

\* the transport is closed after server.run returns, with no finally
MainExitStdio_NoFinally ==
    /\ pc \in {"run_returned", "run_raised"}
    /\ transport' = IF pc = "run_returned" THEN "released" ELSE transport
    /\ pc' = IF pc = "run_returned" THEN "done" ELSE "failed"
    /\ UNCHANGED <<loop, stdin, init, runCalls, served, prev, last>>

\* the end of the async with block, reached when the awaited server.run has
\* returned or raised: the context is exited on both paths, then main returns
\* or the exception leaves main
MainExitStdio ==
    /\ pc \in {"run_returned", "run_raised"}
    /\ transport' = "released"
    /\ pc' = IF pc = "run_returned" THEN "done" ELSE "failed"
    /\ UNCHANGED <<loop, stdin, init, runCalls, served, prev, last>>

\* the answer the run loop sends for a handler's outcome
Response(outcome) ==
    IF ~outcome.raised THEN "result"
    ELSE IF IsException(outcome.type) THEN "error"
    ELSE "none"

\* the run loop reads requests while its read stream is open
Accepting ==
    /\ loop = "running"
    /\ stdin = "open"
    /\ served < MaxRequests

\* the run loop answers a request with its handler's outcome: an Exception of
\* the handler becomes an error response, anything else that is raised leaves
\* server.run
Dispatch(kind, name, arguments, outcome) ==
    /\ served' = served + 1
    /\ prev' = last
    /\ last' = [kind |-> kind, name |-> name, arguments |-> arguments,
                outcome |-> outcome, response |-> Response(outcome)]
    /\ IF Response(outcome) = "none"
       THEN loop' = "ended" /\ pc' = "run_raised"
       ELSE UNCHANGED <<loop, pc>>
    /\ UNCHANGED <<transport, stdin, init, runCalls>>

ListToolsRequest ==
    /\ Accepting
    /\ Dispatch("list", "", NoneArgs, Return(handle_list_tools, NoneArgs))

CallToolRequest(name, arguments) ==
    /\ Accepting
    /\ Dispatch("call", name, arguments, handle_call_tool(name, arguments))

\* the peer closes its end of the transport
StdinCloses ==
    /\ stdin = "open"
    /\ pc \notin {"done", "failed"}
    /\ stdin' = "eof"
    /\ UNCHANGED <<pc, transport, loop, init, runCalls, served, prev, last>>

\* server.run returns once the read stream has ended
RunReturns ==
    /\ loop = "running"
    /\ stdin = "eof"
    /\ loop' = "ended"
    /\ pc' = "run_returned"
    /\ UNCHANGED <<transport, stdin, init, runCalls, served, prev, last>>

\* server.run raises (a transport error)
RunRaises ==
    /\ loop = "running"
    /\ loop' = "ended"
    /\ pc' = "run_raised"
    /\ UNCHANGED <<transport, stdin, init, runCalls, served, prev, last>>

Next ==
    \/ MainEnterStdio
    \/ MainCallRun
    \/ ListToolsRequest
    \/ \E name \in ToolNames, arguments \in Arguments : CallToolRequest(name, arguments)
    \/ StdinCloses
    \/ RunReturns
    \/ RunRaises
    \/ MainExitStdio

Spec == Init /\ [][Next]_vars

----------------------------------------------------------------------------
(* Properties *)

Events == {prev, last}
Calls == {e \in Events : e.kind = "call"}
Hellos == {e \in Calls : e.name = "say_hello"}
Lists == {e \in Events : e.kind = "list"}

HasName(arguments) == arguments.t = "dict" /\ "name" \in DOMAIN arguments.d
Greeting(e, text) ==
    /\ ~e.outcome.raised
    /\ e.response = "result"
    /\ e.outcome.value = <<[type |-> "text", text |-> text]>>
UnknownTool(e) ==
    /\ e.outcome.raised
    /\ e.outcome.type = "ValueError"
    /\ e.outcome.msg = "Unknown tool: " \o e.name
    /\ e.outcome.value = <<>>

\* C1: a say_hello call whose mapping holds a string "name" = s, the empty
\* string included, returns exactly one text item "Hello, " + s + "!".
C1_GreetsName ==
    \A e \in Hellos :
        (HasName(e.arguments) /\ e.arguments.d["name"].t = "str")
            => Greeting(e, "Hello, " \o e.arguments.d["name"].s \o "!")

C1_Witness ==
    /\ last \in Hellos /\ HasName(last.arguments)
    /\ last.arguments.d["name"] = PyStr("")
    /\ Greeting(last, "Hello, !")
    /\ prev \in Hellos /\ HasName(prev.arguments)
    /\ Greeting(prev, "Hello, Ada!")

\* C2: a say_hello call with no mapping, the empty mapping or a non-empty
\* mapping without "name" does not fail and returns one text item
\* "Hello, World!", the same in the three cases.
C2_DefaultsToWorld ==
    \A e \in Hellos : ~HasName(e.arguments) => Greeting(e, "Hello, World!")

C2_Witness ==
    /\ prev \in Hellos /\ prev.arguments = NoneArgs
    /\ last \in Hellos /\ last.arguments.t = "dict"
    /\ DOMAIN last.arguments.d = {"title"}
    /\ prev.outcome.value = last.outcome.value
    /\ Greeting(last, "Hello, World!")

\* C3: a say_hello call greets the value of "name" only when the field is
\* present and non-null; in every other case, a null "name" included, the text
\* is "Hello, World!".
C3_NullNameIsWorld ==
    \A e \in Hellos :
        IF HasName(e.arguments) /\ e.arguments.d["name"].t # "NoneType"
        THEN Greeting(e, "Hello, " \o format(e.arguments.d["name"]) \o "!")
        ELSE Greeting(e, "Hello, World!")

\* C4: a call with a tool name other than "say_hello" fails with the unknown
\* tool error carrying the name, whatever the arguments, and returns no content.
C4_UnknownToolFails ==
    \A e \in Calls : e.name # "say_hello" => UnknownTool(e)

C4_Witness ==
    /\ last \in Calls /\ last.name = "bogus_tool"
    /\ HasName(last.arguments) /\ last.arguments.d["name"] = PyStr("Ada")
    /\ UnknownTool(last)
    /\ last.outcome.msg = "Unknown tool: bogus_tool"

\* C5: every list-tools request, after any requests before it, is answered
\* with the same sequence of one descriptor named "say_hello" whose input
\* schema is an object schema with a string property "name" listed as required.
C5_CatalogFixed ==
    /\ \A e \in Lists :
          /\ ~e.outcome.raised
          /\ e.response = "result"
          /\ Len(e.outcome.value) = 1
          /\ e.outcome.value[1].name = "say_hello"
          /\ e.outcome.value[1].inputSchema.type = "object"
          /\ e.outcome.value[1].inputSchema.properties.name.type = "string"
          /\ e.outcome.value[1].inputSchema.required = <<"name">>
    /\ \A e, f \in Lists : e.outcome.value = f.outcome.value

C5_Witness ==
    /\ prev \in Calls /\ prev.outcome.raised
    /\ last \in Lists
    /\ served = MaxRequests

C7_TransportScoped ==
    /\ pc \in {"done", "failed"} => transport = "released"
    /\ loop = "running" => transport = "held"
    /\ transport = "released" => loop = "ended"

C7_Witness == pc = "failed" /\ transport = "released" /\ loop = "ended"

\* C8: a call with an unknown tool name is answered with an error response
\* and leaves the run loop running and the transport held; the requests after
\* it are answered as they are otherwise.
C8_AnsweredStep ==
    (served' # served /\ last'.kind = "call" /\ last'.name # "say_hello")
        => /\ last'.response = "error"
           /\ loop = "running" /\ loop' = "running"
           /\ pc' = "awaiting"
           /\ transport' = "held"

C8_AfterError ==
    (prev \in Calls /\ prev.name # "say_hello")
        => /\ prev.response = "error"
           /\ last \in Lists =>
                 Len(last.outcome.value) = 1 /\ last.outcome.value[1].name = "say_hello"
           /\ (last \in Hellos /\ ~HasName(last.arguments)) =>
                 Greeting(last, "Hello, World!")
           /\ (last \in Hellos /\ HasName(last.arguments)
                 /\ last.arguments.d["name"].t = "str") =>
                 Greeting(last, "Hello, " \o last.arguments.d["name"].s \o "!")

\* C8: every answer to an unknown tool name is an error response that leaves
\* the run loop running and the transport held, and the request after it is
\* answered as usual.
C8_ErrorDoesNotStop == [][C8_AnsweredStep]_vars /\ []C8_AfterError

C8_Witness ==
    /\ prev \in Calls /\ prev.name = "bogus_tool" /\ prev.response = "error"
    /\ last \in Hellos /\ Greeting(last, "Hello, Ada!")
    /\ loop = "running" /\ transport = "held" /\ pc = "awaiting"

\* C9: main calls server.run once, with the transport held and the
\* initialization options of hello-world-uv 1.0.0; requests are dispatched
\* only between that call and the close of the transport, and main is left
\* only after the run loop has ended.
C9_Started ==
    /\ runCalls <= 1
    /\ loop # "idle" =>
          /\ runCalls = 1
          /\ init.server_name = "hello-world-uv"
          /\ init.server_version = "1.0.0"
          /\ init.capabilities.experimental_capabilities = <<>>
    /\ served > 0 => loop # "idle"
    /\ pc \in {"done", "failed"} => loop = "ended" /\ runCalls = 1

C9_Step ==
    /\ runCalls' # runCalls => runCalls = 0 /\ transport = "held" /\ loop' = "running"
    /\ served' # served =>
          /\ loop = "running" /\ runCalls = 1
          /\ stdin = "open" /\ transport = "held"
          /\ pc = "awaiting"

\* C9: server.run is called once, with the transport held and the literal
\* options, requests are dispatched only while it runs, and main is left only
\* after it has ended.
C9_HandOff == []C9_Started /\ [][C9_Step]_vars

C9_Witness == pc = "done" /\ served = MaxRequests /\ stdin = "eof" /\ runCalls = 1

\* C10: the names handle_list_tools advertises are the names handle_call_tool
\* does not reject as unknown.
C10_CatalogMatchesDispatch ==
    \A e \in Calls :
        (\E i \in 1..Len(handle_list_tools) : handle_list_tools[i].name = e.name)
            <=> ~UnknownTool(e)

C10_Witness ==
    /\ prev \in Hellos /\ ~prev.outcome.raised
    /\ last \in Calls /\ last.name = "say_goodbye" /\ UnknownTool(last)

====
